---- MODULE Spec2Model ----
(***************************************************************************)
(* A model of main.py of images2pptx: load_config, validate_config and     *)
(* create_powerpoint_slides, run in sequence by main().                    *)
(*                                                                         *)
(* Python strings are sequences of one-character strings, so that          *)
(* str.lower(), str.endswith(), str.startswith(), sorted() and the         *)
(* substring test of `in` are computed, not assumed.  YAML values are      *)
(* records tagged with their Python type ("map", "list", "str", "num",     *)
(* "null").  Numbers are exact fractions n/d; binary floating-point        *)
(* rounding is not modelled.                                               *)
(***************************************************************************)
EXTENDS Integers, Sequences, FiniteSets, TLC

\* ------------------------------------------------------------------ bounds
\* The largest number of entries in the images folder.
MaxFiles == 4
\* The largest number of fields in which a configuration departs from the
\* reference configuration.
MaxPatches == 2

\* ----------------------------------------------------------------- strings
UpperLetters ==
  <<"A","B","C","D","E","F","G","H","I","J","K","L","M",
    "N","O","P","Q","R","S","T","U","V","W","X","Y","Z">>
LowerLetters ==
  <<"a","b","c","d","e","f","g","h","i","j","k","l","m",
    "n","o","p","q","r","s","t","u","v","w","x","y","z">>
Digits == <<"0","1","2","3","4","5","6","7","8","9">>
\* The characters of the model in code-point order (the order sorted() uses).
CodePoints == <<" ", ".", "/">> \o Digits \o UpperLetters \o <<"_">> \o LowerLetters

Ord(c) == CHOOSE i \in 1..Len(CodePoints) : CodePoints[i] = c

LowerChar(c) ==
  IF \E i \in 1..26 : UpperLetters[i] = c
    THEN LowerLetters[CHOOSE i \in 1..26 : UpperLetters[i] = c]
    ELSE c

\* str.lower()
Lower(s) == [i \in 1..Len(s) |-> LowerChar(s[i])]

\* str.endswith(suffix)
EndsWith(s, suffix) ==
  /\ Len(suffix) <= Len(s)
  /\ SubSeq(s, Len(s) - Len(suffix) + 1, Len(s)) = suffix

\* str.startswith(prefix)
StartsWith(s, prefix) ==
  /\ Len(prefix) <= Len(s)
  /\ SubSeq(s, 1, Len(prefix)) = prefix

\* `sub in s` for two strings
IsSubstr(sub, s) ==
  \E i \in 0..(Len(s) - Len(sub)) : SubSeq(s, i + 1, i + Len(sub)) = sub

\* s < t in the order Python compares strings (by code point, then length)
RECURSIVE StrLess(_, _)
StrLess(s, t) ==
  IF s = <<>> THEN t # <<>>
  ELSE IF t = <<>> THEN FALSE
  ELSE IF s[1] = t[1] THEN StrLess(Tail(s), Tail(t))
  ELSE Ord(s[1]) < Ord(t[1])

\* sorted(names), for a listing without duplicates
RECURSIVE Sorted(_)
Sorted(names) ==
  IF names = {} THEN <<>>
  ELSE LET least == CHOOSE x \in names : \A y \in names \ {x} : StrLess(x, y)
       IN  <<least>> \o Sorted(names \ {least})

\* os.path.join(a, b) on POSIX
PathJoin(a, b) ==
  IF StartsWith(b, <<"/">>) THEN b
  ELSE IF a = <<>> \/ EndsWith(a, <<"/">>) THEN a \o b
  ELSE a \o <<"/">> \o b

\* ------------------------------------------------------------- YAML values
Str(s) == [kind |-> "str", s |-> s]
Num(n, d) == [kind |-> "num", n |-> n, d |-> d]
Null == [kind |-> "null"]
List(elems) == [kind |-> "list", elems |-> elems]
Map(items) == [kind |-> "map", items |-> items]

\* `key in v` for a string key: TRUE, FALSE, or the TypeError of a value
\* that is not iterable.
In(key, v) ==
  CASE v.kind = "map" -> IF key \in DOMAIN v.items THEN "true" ELSE "false"
    [] v.kind = "list" ->
         IF \E i \in 1..Len(v.elems) :
              v.elems[i].kind = "str" /\ v.elems[i].s = key
           THEN "true" ELSE "false"
    [] v.kind = "str" -> IF IsSubstr(key, v.s) THEN "true" ELSE "false"
    [] OTHER -> "TypeError"

\* Whether v[key] raises TypeError for a string key (a list, a string or a
\* scalar is not subscriptable by a string).
SubscriptRaises(v) == v.kind # "map"

\* ---------------------------------------------------------------- float()
RECURSIVE DigitsValue(_)
DigitsValue(s) ==
  IF s = <<>> THEN 0
  ELSE 10 * DigitsValue(SubSeq(s, 1, Len(s) - 1))
         + (CHOOSE k \in 0..9 : Digits[k + 1] = s[Len(s)])

RECURSIVE Pow10(_)
Pow10(k) == IF k = 0 THEN 1 ELSE 10 * Pow10(k - 1)

IsDigit(c) == \E k \in 1..10 : Digits[k] = c

\* The decimal strings float() accepts here: digits with at most one point
\* and at least one digit.
IsDecimal(s) ==
  /\ \A i \in 1..Len(s) : IsDigit(s[i]) \/ s[i] = "."
  /\ Cardinality({i \in 1..Len(s) : s[i] = "."}) <= 1
  /\ \E i \in 1..Len(s) : IsDigit(s[i])

ParseDecimal(s) ==
  LET digs == SelectSeq(s, IsDigit)
      dots == {i \in 1..Len(s) : s[i] = "."}
      frac == IF dots = {} THEN 0 ELSE Len(s) - (CHOOSE i \in dots : TRUE)
  IN  [n |-> DigitsValue(digs), d |-> Pow10(frac)]

\* float(v): the value, or the ValueError / TypeError float() raises.
Float(v) ==
  CASE v.kind = "num" -> [res |-> "ok", n |-> v.n, d |-> v.d]
    [] v.kind = "str" ->
         IF IsDecimal(v.s)
           THEN [res |-> "ok", n |-> ParseDecimal(v.s).n, d |-> ParseDecimal(v.s).d]
           ELSE [res |-> "ValueError", n |-> 0, d |-> 1]
    [] OTHER -> [res |-> "TypeError", n |-> 0, d |-> 1]

\* -------------------------------------------------------------- key names
K_paths ==
  <<"p","a","t","h","s">>
K_presentation ==
  <<"p","r","e","s","e","n","t","a","t","i","o","n">>
K_extensions ==
  <<"e","x","t","e","n","s","i","o","n","s">>
K_images_folder ==
  <<"i","m","a","g","e","s","_","f","o","l","d","e","r">>
K_output_folder ==
  <<"o","u","t","p","u","t","_","f","o","l","d","e","r">>
K_output_filename ==
  <<"o","u","t","p","u","t","_","f","i","l","e","n","a","m","e">>
K_textbox_left_inches ==
  <<"t","e","x","t","b","o","x","_","l","e","f","t","_","i","n","c","h","e","s">>
K_textbox_top_inches ==
  <<"t","e","x","t","b","o","x","_","t","o","p","_","i","n","c","h","e","s">>
K_textbox_width_inches ==
  <<"t","e","x","t","b","o","x","_","w","i","d","t","h","_","i","n","c","h","e","s">>
K_textbox_height_inches ==
  <<"t","e","x","t","b","o","x","_","h","e","i","g","h","t","_","i","n","c","h","e","s">>
K_image_left_inches ==
  <<"i","m","a","g","e","_","l","e","f","t","_","i","n","c","h","e","s">>
K_image_top_inches ==
  <<"i","m","a","g","e","_","t","o","p","_","i","n","c","h","e","s">>
K_image_scale_percent ==
  <<"i","m","a","g","e","_","s","c","a","l","e","_","p","e","r","c","e","n","t">>
K_text_font_size ==
  <<"t","e","x","t","_","f","o","n","t","_","s","i","z","e">>
K_slide_size_option ==
  <<"s","l","i","d","e","_","s","i","z","e","_","o","p","t","i","o","n">>
S_standard == <<"s","t","a","n","d","a","r","d">>
S_widescreen == <<"w","i","d","e","s","c","r","e","e","n">>
DotPng == <<".","p","n","g">>
DotPptx == <<".","p","p","t","x">>

required_paths_keys == <<K_images_folder, K_output_folder, K_output_filename>>

required_presentation_keys ==
  <<K_textbox_left_inches, K_textbox_top_inches, K_textbox_width_inches,
    K_textbox_height_inches, K_image_left_inches, K_image_top_inches,
    K_image_scale_percent, K_text_font_size>>

\* --------------------------------------------------------------- logging
\* One record per logging call: its level, which message it is, and the
\* string the message names (a key, a path, an extension; <<>> when the
\* message interpolates none or a value that is not a string).
LogEntry(level, msg, arg) == [level |-> level, msg |-> msg, arg |-> arg]
Error(msg, arg) == LogEntry("error", msg, arg)
Warning(msg, arg) == LogEntry("warning", msg, arg)
Info(msg, arg) == LogEntry("info", msg, arg)

StrOrEmpty(v) == IF v.kind = "str" THEN v.s ELSE <<>>

\* ------------------------------------------------------------ file system
\* The paths of the model and what each is: "dir", "file" or "none".
P_images == <<"i","n">>
P_gone == <<"g","o","n","e">>
P_out == <<"o","u","t">>

\* os.path.isdir(v): TRUE, FALSE, or the TypeError os.stat raises for an
\* argument that is not a path.
IsDir(files, v) ==
  IF v.kind # "str" THEN "TypeError"
  ELSE IF v.s \in DOMAIN files /\ files[v.s] = "dir" THEN "true"
  ELSE "false"

\* os.path.exists(v)
Exists(files, v) ==
  IF v.kind # "str" THEN "TypeError"
  ELSE IF v.s \in DOMAIN files /\ files[v.s] # "none" THEN "true"
  ELSE "false"

\* -------------------------------------------------------- validate_config
\* What a function came to: it returned ("ok"), it logged and called
\* sys.exit(1) ("exit"), or an exception left it uncaught (its name).
Returned == [status |-> "ok", log |-> <<>>]
Exited(msg, arg) == [status |-> "exit", log |-> <<Error(msg, arg)>>]
Raised(exc) == [status |-> exc, log |-> <<>>]

\* The `for key in required_paths_keys` loop, from its i-th key on.
RECURSIVE CheckPathsKeys(_, _)
CheckPathsKeys(paths, i) ==
  IF i > Len(required_paths_keys) THEN Returned
  ELSE LET key == required_paths_keys[i]
           has == In(key, paths)
       IN  IF has = "TypeError" THEN Raised("TypeError")
           ELSE IF has = "false" THEN Exited("missing_paths_key", key)
           ELSE CheckPathsKeys(paths, i + 1)

\* Lines 74-85: the three values are read, then images_folder and
\* output_filename are checked.
CheckPathsValues(paths, files) ==
  IF SubscriptRaises(paths) THEN Raised("TypeError")
  ELSE LET images_folder == paths.items[K_images_folder]
           output_filename == paths.items[K_output_filename]
           isdir == IsDir(files, images_folder)
       IN  IF isdir = "TypeError" THEN Raised("TypeError")
           ELSE IF isdir = "false"
             THEN Exited("images_folder_not_dir", StrOrEmpty(images_folder))
           ELSE IF ~ (output_filename.kind = "str"
                       /\ EndsWith(output_filename.s, DotPptx))
             THEN Exited("output_filename_not_pptx", StrOrEmpty(output_filename))
           ELSE Returned

\* The loop without its `if key not in presentation` test: a missing key
\* raises KeyError at presentation[key], which the except clause lets pass.
RECURSIVE CheckPresentationKeys_NoPresenceTest(_, _)
CheckPresentationKeys_NoPresenceTest(presentation, i) ==
  IF i > Len(required_presentation_keys) THEN Returned
  ELSE LET key == required_presentation_keys[i]
           has == In(key, presentation)
       IN  IF has = "TypeError" THEN Raised("TypeError")
           ELSE IF has = "false" THEN Raised("KeyError")
           ELSE IF SubscriptRaises(presentation)
             THEN Exited("not_numerical", key)
           ELSE IF Float(presentation.items[key]).res # "ok"
             THEN Exited("not_numerical", key)
           ELSE CheckPresentationKeys_NoPresenceTest(presentation, i + 1)

\* The `for key in required_presentation_keys` loop, from its i-th key on.
\* presentation[key] is evaluated inside the try, so its TypeError is caught
\* like float()'s.
RECURSIVE CheckPresentationKeys(_, _)
CheckPresentationKeys(presentation, i) ==
  IF i > Len(required_presentation_keys) THEN Returned
  ELSE LET key == required_presentation_keys[i]
           has == In(key, presentation)
       IN  IF has = "TypeError" THEN Raised("TypeError")
           ELSE IF has = "false" THEN Exited("missing_presentation_key", key)
           ELSE IF SubscriptRaises(presentation)
             THEN Exited("not_numerical", key)
           ELSE IF Float(presentation.items[key]).res # "ok"
             THEN Exited("not_numerical", key)
           ELSE CheckPresentationKeys(presentation, i + 1)

\* The `for ext in config["extensions"]` loop, from its i-th element on.
RECURSIVE CheckExtensionElems(_, _)
CheckExtensionElems(elems, i) ==
  IF i > Len(elems) THEN Returned
  ELSE IF ~ (elems[i].kind = "str" /\ StartsWith(elems[i].s, <<".">>))
    THEN Exited("invalid_extension", StrOrEmpty(elems[i]))
  ELSE CheckExtensionElems(elems, i + 1)

\* Lines 112-120.
CheckExtensions(config) ==
  LET has == In(K_extensions, config)
  IN  IF has = "TypeError" THEN Raised("TypeError")
      ELSE IF has = "false" THEN Returned
      ELSE IF SubscriptRaises(config) THEN Raised("TypeError")
      ELSE IF config.items[K_extensions].kind # "list"
        THEN Exited("extensions_not_list", <<>>)
      ELSE CheckExtensionElems(config.items[K_extensions].elems, 1)

\* Lines 87-120, reached once the paths section has passed.
CheckPresentation(config) ==
  IF SubscriptRaises(config) THEN Raised("TypeError")
  ELSE LET keys == CheckPresentationKeys(config.items[K_presentation], 1)
       IN  IF keys.status # "ok" THEN keys ELSE CheckExtensions(config)

\* Lines 66-120, reached once both sections are known to be present.
CheckPaths(config, files) ==
  IF SubscriptRaises(config) THEN Raised("TypeError")
  ELSE LET paths == config.items[K_paths]
           keys == CheckPathsKeys(paths, 1)
           values == CheckPathsValues(paths, files)
       IN  IF keys.status # "ok" THEN keys
           ELSE IF values.status # "ok" THEN values
           ELSE CheckPresentation(config)

validate_config(config, files) ==
  LET has_paths == In(K_paths, config)
      has_presentation == In(K_presentation, config)
  IN  IF has_paths = "TypeError" THEN Raised("TypeError")
      ELSE IF has_paths = "false" THEN Exited("missing_paths_section", <<>>)
      ELSE IF has_presentation = "TypeError" THEN Raised("TypeError")
      ELSE IF has_presentation = "false"
        THEN Exited("missing_presentation_section", <<>>)
      ELSE CheckPaths(config, files)

\* ------------------------------------------------- configurations (inputs)
\* Numbers are fractions n/d with d > 0; products and quotients are kept in
\* lowest terms.
Frac(n, d) == [n |-> n, d |-> d]

RECURSIVE GCD(_, _)
GCD(a, b) == IF b = 0 THEN a ELSE GCD(b, a % b)

Reduce(f) ==
  LET g == GCD(IF f.n < 0 THEN -f.n ELSE f.n, f.d)
  IN  Frac(f.n \div g, f.d \div g)

FracEq(a, b) == Reduce(Frac(a.n, a.d)) = Reduce(Frac(b.n, b.d))
FracMul(a, b) == Reduce(Frac(a.n * b.n, a.d * b.d))
FracDiv(a, b) == Reduce(Frac(a.n * b.d, a.d * b.n))

F_o_pptx == <<"o",".","p","p","t","x">>
F_o_ppt == <<"o",".","p","p","t">>

\* A configuration every rule accepts; the inputs of the model are this one
\* with up to MaxPatches fields replaced or removed.
RefPaths ==
  Map((K_images_folder :> Str(P_images))
      @@ (K_output_folder :> Str(P_out))
      @@ (K_output_filename :> Str(F_o_pptx)))

RefPresentation ==
  Map((K_textbox_left_inches :> Num(1, 2))
      @@ (K_textbox_top_inches :> Num(5, 1))
      @@ (K_textbox_width_inches :> Num(9, 1))
      @@ (K_textbox_height_inches :> Num(2, 1))
      @@ (K_image_left_inches :> Num(1, 1))
      @@ (K_image_top_inches :> Num(3, 4))
      @@ (K_image_scale_percent :> Num(100, 1))
      @@ (K_text_font_size :> Num(12, 1)))

RefConfig == Map((K_paths :> RefPaths) @@ (K_presentation :> RefPresentation))

Absent == [kind |-> "absent"]
Patch(sec, key, val) == [sec |-> sec, key |-> key, val |-> val]

PathsPatches ==
  <<Patch("paths", K_images_folder, Absent),
    Patch("paths", K_images_folder, Null),
    Patch("paths", K_images_folder, Str(P_gone)),
    Patch("paths", K_output_folder, Absent),
    Patch("paths", K_output_folder, Null),
    Patch("paths", K_output_filename, Absent),
    Patch("paths", K_output_filename, Str(F_o_ppt)),
    Patch("paths", K_output_filename, Num(7, 1))>>

MissingPresentationPatches ==
  [i \in 1..Len(required_presentation_keys) |->
     Patch("presentation", required_presentation_keys[i], Absent)]

PresentationPatches ==
  <<Patch("presentation", K_textbox_left_inches, Str(<<"a","b","c">>)),
    Patch("presentation", K_textbox_left_inches, Str(<<"1",".","5">>)),
    Patch("presentation", K_textbox_top_inches, Null),
    Patch("presentation", K_image_left_inches, Num(0, 1)),
    Patch("presentation", K_image_scale_percent, Num(50, 1)),
    Patch("presentation", K_image_scale_percent, Str(<<"1","2",".","5">>)),
    Patch("presentation", K_text_font_size, List(<<>>)),
    Patch("presentation", K_slide_size_option, Str(S_standard)),
    Patch("presentation", K_slide_size_option, Str(<<"S","t","a","n","d","a","r","d">>)),
    Patch("presentation", K_slide_size_option, Str(<<"W","I","D","E","S","C","R","E","E","N">>)),
    Patch("presentation", K_slide_size_option, Str(<<"s","q","u","a","r","e">>)),
    Patch("presentation", K_slide_size_option, Num(4, 1)),
    Patch("presentation", K_slide_size_option, Null)>>

TopPatches ==
  <<Patch("top", K_paths, Absent),
    Patch("top", K_paths, Num(7, 1)),
    Patch("top", K_paths, Str(<<"x">>)),
    Patch("top", K_paths, List(<<Str(K_images_folder), Str(K_output_folder),
                                 Str(K_output_filename)>>)),
    Patch("top", K_presentation, Absent),
    Patch("top", K_presentation, Null),
    Patch("top", K_presentation, List(<<Str(K_textbox_left_inches)>>)),
    Patch("top", K_extensions, List(<<Str(DotPng)>>)),
    Patch("top", K_extensions, List(<<Str(<<".","P","N","G">>)>>)),
    Patch("top", K_extensions, List(<<Str(<<".","j","p","g">>), Str(DotPng)>>)),
    Patch("top", K_extensions, List(<<>>)),
    Patch("top", K_extensions, Str(DotPng)),
    Patch("top", K_extensions, List(<<Str(DotPng), Str(<<"p","n","g">>)>>)),
    Patch("top", K_extensions, List(<<Num(1, 1)>>))>>

Patches ==
  PathsPatches \o MissingPresentationPatches \o PresentationPatches \o TopPatches

SetKey(m, key, val) ==
  IF val.kind = "absent"
    THEN Map([k \in DOMAIN m.items \ {key} |-> m.items[k]])
    ELSE Map([k \in DOMAIN m.items \cup {key} |->
                IF k = key THEN val ELSE m.items[k]])

\* A patch of a section that is no longer a mapping changes nothing.
ApplyPatch(config, p) ==
  IF p.sec = "top" THEN SetKey(config, p.key, p.val)
  ELSE LET sec == IF p.sec = "paths" THEN K_paths ELSE K_presentation
       IN  IF sec \in DOMAIN config.items /\ config.items[sec].kind = "map"
             THEN SetKey(config, sec, SetKey(config.items[sec], p.key, p.val))
             ELSE config

RECURSIVE ApplyPatches(_, _)
ApplyPatches(config, ids) ==
  IF ids = <<>> THEN config
  ELSE ApplyPatches(ApplyPatch(config, Patches[Head(ids)]), Tail(ids))

\* The strictly increasing sequences of at most k patch numbers.
RECURSIVE PatchChoices(_)
PatchChoices(k) ==
  IF k = 0 THEN {<<>>}
  ELSE PatchChoices(k - 1) \cup
       {Append(ids, i) : ids \in {c \in PatchChoices(k - 1) : Len(c) = k - 1},
                         i \in 1..Len(Patches)}

IncreasingChoices ==
  {ids \in PatchChoices(MaxPatches) :
     \A i \in 1..(Len(ids) - 1) : ids[i] < ids[i + 1]}

\* Documents whose top-level value is not a mapping.
NonMappingDocuments ==
  <<Num(42, 1),
    Str(<<"h","e","l","l","o">>),
    Str(K_paths \o <<" ">> \o K_presentation),
    List(<<>>),
    List(<<Str(K_paths), Str(K_presentation)>>)>>

\* The entries an images folder may hold, and what each image is.
N_B_png == <<"B",".","p","n","g">>
N_a_png == <<"a",".","p","n","g">>
N_b_PNG == <<"b",".","P","N","G">>
N_c_txt == <<"c",".","t","x","t">>
N_d_jpg == <<"d",".","j","p","g">>
FileUniverse == {N_B_png, N_a_png, N_b_PNG, N_c_txt, N_d_jpg}

\* img.size of each image, in pixels
ImageSize(name) ==
  CASE name = N_a_png -> <<960, 480>>
    [] name = N_b_PNG -> <<1, 3>>
    [] name = N_B_png -> <<640, 480>>
    [] OTHER -> <<800, 600>>

\* image_to_string(img) of each image
ImageText(name) ==
  IF name = N_a_png THEN <<"h","i">> ELSE <<>>

\* ------------------------------------------------------------------ state
VARIABLES
  pc,            \* where main() is: the call it makes next, or "done"
  files,         \* the file system: path -> "dir", "file" or "none"
  config,        \* what load_config returned (Null before it has)
  log,           \* the logging calls made, in order
  exit_code,     \* the process's exit status, -1 while it runs
  uncaught,      \* the exception that ended the process, "" if none
  validated,     \* validate_config has returned
  locals,        \* create_powerpoint_slides' values read from the config
  presentation,  \* the Presentation object: its size and its slides
  listed,        \* os.listdir: "not_called", "raised" or "returned"
  all_files,     \* the sorted listing
  image_files,   \* the filtered, sorted candidate list
  next_image,    \* the loop's position in image_files
  opened,        \* the images handed to Image.open, in order
  outcomes,      \* what became of each: "open_error", "embed_error", "ok"
  output_file    \* the documents written: <<>> or one [path, slides, ...]

vars ==
  <<pc, files, config, log, exit_code, uncaught, validated, locals,
    presentation, listed, all_files, image_files, next_image, opened, outcomes,
    output_file>>

NoLocals == [set |-> FALSE]
NoPresentation == [created |-> FALSE, slides |-> <<>>]

Init ==
  /\ pc = "load_config"
  /\ files \in {(P_images :> "dir") @@ (P_gone :> "none") @@ (P_out :> out) :
                  out \in {"dir", "none", "file"}}
  /\ config = Null
  /\ log = <<>>
  /\ exit_code = -1
  /\ uncaught = ""
  /\ validated = FALSE
  /\ locals = NoLocals
  /\ presentation = NoPresentation
  /\ listed = "not_called"
  /\ all_files = <<>>
  /\ image_files = <<>>
  /\ next_image = 1
  /\ opened = <<>>
  /\ outcomes = <<>>
  /\ output_file = <<>>

\* sys.exit(1) after the logging calls `entries`
SysExit(entries) ==
  /\ log' = log \o entries
  /\ exit_code' = 1
  /\ pc' = "done"
  /\ UNCHANGED uncaught

\* An exception nothing catches: the interpreter prints the traceback and
\* exits with status 1; no logging call is made.
Uncaught(exc, entries) ==
  /\ log' = log \o entries
  /\ uncaught' = exc
  /\ exit_code' = 1
  /\ pc' = "done"

\* ------------------------------------------------------------ load_config
\* Lines 37-39: the file is not there.
LoadConfigMissing ==
  /\ pc = "load_config"
  /\ SysExit(<<Error("config_not_found", <<>>)>>)
  /\ UNCHANGED <<files, config, validated, locals, presentation, listed,
                 all_files, image_files, next_image, opened, outcomes, output_file>>

\* Lines 41-48: yaml.safe_load raises YAMLError, or returns None and the
\* ValueError is raised; both are caught, logged, and end the process.
LoadConfigUnparsable ==
  /\ pc = "load_config"
  /\ SysExit(<<Error("yaml_parse_failed", <<>>)>>)
  /\ UNCHANGED <<files, config, validated, locals, presentation, listed,
                 all_files, image_files, next_image, opened, outcomes, output_file>>

\* Line 50: whatever safe_load returned that is not None is returned.
LoadConfigParsed ==
  /\ pc = "load_config"
  /\ \/ \E ids \in IncreasingChoices : config' = ApplyPatches(RefConfig, ids)
     \/ \E i \in 1..Len(NonMappingDocuments) : config' = NonMappingDocuments[i]
  /\ pc' = "validate_config"
  /\ UNCHANGED <<files, log, exit_code, uncaught, validated, locals,
                 presentation, listed, all_files, image_files, next_image, opened,
                 outcomes, output_file>>

\* -------------------------------------------------------- validate_config
ValidateConfig ==
  /\ pc = "validate_config"
  /\ LET r == validate_config(config, files)
     IN  CASE r.status = "ok" ->
                /\ validated' = TRUE
                /\ pc' = "create_powerpoint_slides"
                /\ UNCHANGED <<log, exit_code, uncaught>>
           [] r.status = "exit" ->
                /\ SysExit(r.log)
                /\ UNCHANGED validated
           [] OTHER ->
                /\ Uncaught(r.status, r.log)
                /\ UNCHANGED validated
  /\ UNCHANGED <<files, config, locals, presentation, listed, all_files, image_files,
                 next_image, opened, outcomes, output_file>>

\* ----------------------------------------------- create_powerpoint_slides
\* Lines 148-158.  presentation_cfg.get(...).lower() raises AttributeError
\* for a value that is not a string; a lowered string outside size_map is
\* warned about and replaced by "widescreen".
size_map(option) ==
  IF option = S_standard THEN <<Frac(10, 1), Frac(15, 2)>>
  ELSE <<Frac(133333, 10000), Frac(15, 2)>>

ResolveSlideSize(presentation_cfg) ==
  LET given == IF K_slide_size_option \in DOMAIN presentation_cfg.items
                 THEN presentation_cfg.items[K_slide_size_option]
                 ELSE Str(S_widescreen)
  IN  IF given.kind # "str"
        THEN [res |-> "AttributeError", option |-> <<>>, log |-> <<>>]
      ELSE IF Lower(given.s) \notin {S_standard, S_widescreen}
        THEN [res |-> "ok", option |-> S_widescreen,
              log |-> <<Warning("invalid_slide_size_option", Lower(given.s))>>]
      ELSE [res |-> "ok", option |-> Lower(given.s), log |-> <<>>]

\* Line 161: config.get("extensions", [".png"]), as a list of strings.
AllowedExtensions(cfg) ==
  IF K_extensions \in DOMAIN cfg.items
    THEN [i \in 1..Len(cfg.items[K_extensions].elems) |->
            cfg.items[K_extensions].elems[i].s]
    ELSE <<DotPng>>

\* Lines 195-198: the name is lowered, the extension is not.
MatchesExtension(f, allowed_extensions) ==
  \E i \in 1..Len(allowed_extensions) :
     EndsWith(Lower(f), allowed_extensions[i])

\* Lines 195-198: the comprehension over the sorted listing.
FilterImages(sorted_listing, allowed_extensions) ==
  LET Keep(f) == MatchesExtension(f, allowed_extensions)
  IN  SelectSeq(sorted_listing, Keep)

\* Line 224
dpi_assumption == 96

\* Lines 223-229 with the scale factor applied to the width alone.
ScaledSize_WidthOnly(size_px, image_scale_percent) ==
  LET base_width_in == FracDiv(Frac(size_px[1], 1), Frac(dpi_assumption, 1))
      base_height_in == FracDiv(Frac(size_px[2], 1), Frac(dpi_assumption, 1))
      scale_factor == FracDiv(image_scale_percent, Frac(100, 1))
  IN  <<FracMul(base_width_in, scale_factor), base_height_in>>

\* Lines 223-229: <<scaled_width_in, scaled_height_in>>
ScaledSize(size_px, image_scale_percent) ==
  LET base_width_in == FracDiv(Frac(size_px[1], 1), Frac(dpi_assumption, 1))
      base_height_in == FracDiv(Frac(size_px[2], 1), Frac(dpi_assumption, 1))
      scale_factor == FracDiv(image_scale_percent, Frac(100, 1))
  IN  <<FracMul(base_width_in, scale_factor),
        FracMul(base_height_in, scale_factor)>>

FloatOf(cfg, key) ==
  LET f == Float(cfg.items[key]) IN Frac(f.n, f.d)

\* Lines 131-145, 161, 180: the values the function keeps from the config.
ReadLocals(cfg, size) ==
  LET p == cfg.items[K_presentation]
      paths == cfg.items[K_paths]
  IN  [set |-> TRUE,
       images_folder |-> paths.items[K_images_folder].s,
       full_output_path |-> PathJoin(paths.items[K_output_folder].s,
                                     paths.items[K_output_filename].s),
       textbox_left |-> FloatOf(p, K_textbox_left_inches),
       textbox_top |-> FloatOf(p, K_textbox_top_inches),
       textbox_width |-> FloatOf(p, K_textbox_width_inches),
       textbox_height |-> FloatOf(p, K_textbox_height_inches),
       image_left |-> FloatOf(p, K_image_left_inches),
       image_top |-> FloatOf(p, K_image_top_inches),
       image_scale_percent |-> FloatOf(p, K_image_scale_percent),
       text_font_size |-> FloatOf(p, K_text_font_size),
       slide_size_option |-> size.option,
       allowed_extensions |-> AllowedExtensions(cfg)]

StartInfo(size) ==
  <<Info("images_folder", <<>>), Info("output_folder", <<>>),
    Info("output_filename", <<>>), Info("allowed_extensions", <<>>),
    Info("slide_size_option", size.option)>>

\* Lines 131-186: from the call to the Presentation object with its size
\* set.  makedirs is tried only when the output folder does not exist.
CreateSetup ==
  /\ pc = "create_powerpoint_slides"
  /\ LET size == ResolveSlideSize(config.items[K_presentation])
         output_folder == config.items[K_paths].items[K_output_folder]
         exists == Exists(files, output_folder)
         started == size.log \o StartInfo(size)
     IN  \/ /\ size.res # "ok"
            /\ Uncaught(size.res, <<>>)
            /\ UNCHANGED <<files, locals, presentation>>
         \/ /\ size.res = "ok"
            /\ exists = "TypeError"
            /\ Uncaught("TypeError", started)
            /\ UNCHANGED <<files, locals, presentation>>
         \/ /\ size.res = "ok"
            /\ exists = "false"
            /\ SysExit(started \o <<Info("creating_output_folder", output_folder.s),
                                    Error("create_output_folder_failed",
                                          output_folder.s)>>)
            /\ UNCHANGED <<files, locals, presentation>>
         \/ /\ size.res = "ok"
            /\ exists # "TypeError"
            /\ log' = log \o started \o
                      (IF exists = "false"
                         THEN <<Info("creating_output_folder", output_folder.s)>>
                         ELSE <<>>)
            /\ files' = IF exists = "false"
                          THEN [files EXCEPT ![output_folder.s] = "dir"]
                          ELSE files
            /\ locals' = ReadLocals(config, size)
            /\ presentation' =
                 [created |-> TRUE,
                  slide_width |-> size_map(size.option)[1],
                  slide_height |-> size_map(size.option)[2],
                  slides |-> <<>>]
            /\ pc' = "listdir"
            /\ UNCHANGED <<exit_code, uncaught>>
  /\ UNCHANGED <<config, validated, listed, all_files, image_files, next_image, opened,
                 outcomes, output_file>>

\* The directory listings os.listdir may return.
Listings == {l \in SUBSET FileUniverse : Cardinality(l) <= MaxFiles}

\* Lines 200-201 without the warning.
ListLog_Silent(candidates) == <<>>

\* Lines 200-201
ListLog(candidates) ==
  IF candidates = <<>> THEN <<Warning("no_image_files", <<>>)>> ELSE <<>>

\* Lines 189-193: os.listdir raises OSError.
ListImagesFails ==
  /\ pc = "listdir"
  /\ listed' = "raised"
  /\ SysExit(<<Error("listdir_failed", locals.images_folder)>>)
  /\ UNCHANGED <<files, config, validated, locals, presentation,
                 all_files, image_files, next_image, opened, outcomes, output_file>>

\* Lines 189-201: the listing is sorted and filtered; an empty result is
\* warned about.
ListImages ==
  /\ pc = "listdir"
  /\ \E listing \in Listings :
       /\ all_files' = Sorted(listing)
       /\ image_files' = FilterImages(all_files', locals.allowed_extensions)
       /\ log' = log \o ListLog(image_files')
  /\ listed' = "returned"
  /\ next_image' = 1
  /\ pc' = "images"
  /\ UNCHANGED <<files, config, exit_code, uncaught, validated, locals,
                 presentation, opened, outcomes, output_file>>

\* Line 221: a blank slide, no shape on it yet.
BlankSlide(image_file) ==
  [image |-> image_file, pictures |-> <<>>, textboxes |-> <<>>]

\* Lines 233-239: the picture add_picture places.
Picture(image_path, loc, size_px) ==
  [path |-> image_path,
   left |-> loc.image_left,
   top |-> loc.image_top,
   width |-> ScaledSize(size_px, loc.image_scale_percent)[1],
   height |-> ScaledSize(size_px, loc.image_scale_percent)[2]]

\* Lines 245-257: the text box, its text and the size given to its runs.
TextBox(loc, extracted_text) ==
  [left |-> loc.textbox_left,
   top |-> loc.textbox_top,
   width |-> loc.textbox_width,
   height |-> loc.textbox_height,
   text |-> extracted_text,
   font_size |-> loc.text_font_size]

\* The loop body with add_slide moved above Image.open: an image that
\* cannot be opened leaves its blank slide behind.
SlidesAfter_SlideBeforeOpen(slides, image_file, outcome, loc) ==
  LET image_path == PathJoin(loc.images_folder, image_file)
      blank == BlankSlide(image_file)
  IN  CASE outcome \in {"open_error", "embed_error"} -> Append(slides, blank)
        [] OTHER ->
             Append(slides,
                    [blank EXCEPT
                       !.pictures = <<Picture(image_path, loc,
                                              ImageSize(image_file))>>,
                       !.textboxes = <<TextBox(loc, ImageText(image_file))>>])

\* The slides after one pass of the loop body (lines 203-257) over
\* image_file, by what happened to the image.
SlidesAfter(slides, image_file, outcome, loc) ==
  LET image_path == PathJoin(loc.images_folder, image_file)
      blank == BlankSlide(image_file)
  IN  CASE outcome = "open_error" -> slides
        [] outcome = "embed_error" -> Append(slides, blank)
        [] OTHER ->
             Append(slides,
                    [blank EXCEPT
                       !.pictures = <<Picture(image_path, loc,
                                              ImageSize(image_file))>>,
                       !.textboxes = <<TextBox(loc, ImageText(image_file))>>])

\* The logging calls of one pass of the loop body.
ImageLog(image_path, outcome) ==
  <<Info("processing_image", image_path)>> \o
  (CASE outcome = "open_error" -> <<Error("open_failed", image_path)>>
     [] outcome = "embed_error" -> <<Error("add_picture_failed", image_path)>>
     [] OTHER -> <<>>)

\* Lines 203-257: one pass of the loop.  Image.open or the OCR raises
\* OSError, or add_picture does, or neither.
ProcessImage ==
  /\ pc = "images"
  /\ next_image <= Len(image_files)
  /\ \E outcome \in {"open_error", "embed_error", "ok"} :
       LET image_file == image_files[next_image]
           image_path == PathJoin(locals.images_folder, image_file)
       IN  /\ opened' = Append(opened, image_file)
           /\ outcomes' = Append(outcomes, outcome)
           /\ log' = log \o ImageLog(image_path, outcome)
           /\ presentation' =
                [presentation EXCEPT
                   !.slides = SlidesAfter(presentation.slides, image_file,
                                          outcome, locals)]
  /\ next_image' = next_image + 1
  /\ UNCHANGED <<pc, files, config, exit_code, uncaught, validated, locals,
                 listed, all_files, image_files, output_file>>

\* presentation.save can succeed only into a directory.
CanSave == files[config.items[K_paths].items[K_output_folder].s] = "dir"

\* Lines 260-262, then main returns and the process exits with status 0.
SavePresentation ==
  /\ pc = "images"
  /\ next_image > Len(image_files)
  /\ CanSave
  /\ output_file' = Append(output_file,
                           [path |-> locals.full_output_path,
                            slide_width |-> presentation.slide_width,
                            slide_height |-> presentation.slide_height,
                            slides |-> presentation.slides])
  /\ log' = Append(log, Info("saved", locals.full_output_path))
  /\ exit_code' = 0
  /\ pc' = "done"
  /\ UNCHANGED <<files, config, uncaught, validated, locals, presentation,
                 listed, all_files, image_files, next_image, opened, outcomes>>

\* Lines 263-265: save raises OSError; nothing is written.
SavePresentationFails ==
  /\ pc = "images"
  /\ next_image > Len(image_files)
  /\ SysExit(<<Error("save_failed", locals.full_output_path)>>)
  /\ UNCHANGED <<files, config, validated, locals, presentation, listed,
                 all_files, image_files, next_image, opened, outcomes, output_file>>

Next ==
  \/ LoadConfigMissing
  \/ LoadConfigUnparsable
  \/ LoadConfigParsed
  \/ ValidateConfig
  \/ CreateSetup
  \/ ListImagesFails
  \/ ListImages
  \/ ProcessImage
  \/ SavePresentation
  \/ SavePresentationFails

Spec == Init /\ [][Next]_vars

\* ============================================================ properties
IsError(e) == e.level = "error"
IsWarning(e) == e.level = "warning"
Errors == SelectSeq(log, IsError)
Warnings == SelectSeq(log, IsWarning)
Range(seq) == {seq[i] : i \in 1..Len(seq)}

HasKey(v, key) == v.kind = "map" /\ key \in DOMAIN v.items

\* create_powerpoint_slides has been entered and has done something.
ImageProcessingStarted ==
  \/ pc \in {"listdir", "images"}
  \/ locals.set
  \/ presentation.created
  \/ presentation.slides # <<>>
  \/ listed # "not_called"
  \/ opened # <<>>
  \/ output_file # <<>>

\* The required keys a configuration with both sections lacks.
MissingRequired(cfg) ==
  {<<"paths", required_paths_keys[i]>> :
     i \in {j \in 1..Len(required_paths_keys) :
              ~ HasKey(cfg.items[K_paths], required_paths_keys[j])}}
  \cup
  {<<"presentation", required_presentation_keys[i]>> :
     i \in {j \in 1..Len(required_presentation_keys) :
              ~ HasKey(cfg.items[K_presentation], required_presentation_keys[j])}}

\* cfg with the one key k = <<section, key>> given the reference value.
Restored(cfg, k) ==
  ApplyPatch(cfg, Patch(k[1], k[2],
                        IF k[1] = "paths" THEN RefPaths.items[k[2]]
                        ELSE RefPresentation.items[k[2]]))

\* cfg lacks exactly one required key and is valid but for that.
MissingExactlyOne(cfg) ==
  /\ HasKey(cfg, K_paths) /\ cfg.items[K_paths].kind = "map"
  /\ HasKey(cfg, K_presentation) /\ cfg.items[K_presentation].kind = "map"
  /\ Cardinality(MissingRequired(cfg)) = 1
  /\ \A k \in MissingRequired(cfg) :
       validate_config(Restored(cfg, k), files).status = "ok"

MissingKeyError(k) ==
  IF k[1] = "paths" THEN Error("missing_paths_key", k[2])
  ELSE Error("missing_presentation_key", k[2])

\* C1: a configuration that is valid but for one missing required key is
\* rejected by validate_config with one logged error naming the key and exit
\* status 1, and nothing of create_powerpoint_slides (no listing, no image
\* opened, no slide, no document) happens in any run before validate_config
\* has returned.
C1_MissingKeyStopsBeforeImages ==
  /\ ImageProcessingStarted => validated
  /\ (pc \notin {"load_config", "validate_config"} /\ MissingExactlyOne(config)) =>
       /\ pc = "done"
       /\ exit_code = 1
       /\ uncaught = ""
       /\ \A k \in MissingRequired(config) : log = <<MissingKeyError(k)>>
       /\ ~ validated
       /\ ~ ImageProcessingStarted

C1_Witness ==
  /\ pc = "done"
  /\ MissingExactlyOne(config)
  /\ <<"presentation", K_image_scale_percent>> \in MissingRequired(config)
  /\ exit_code = 1

\* The elements of seq whose outcome, at the same position, is `which`.
RECURSIVE PickByOutcome(_, _, _)
PickByOutcome(seq, outs, which) ==
  IF seq = <<>> \/ outs = <<>> THEN <<>>
  ELSE (IF Head(outs) = which THEN <<Head(seq)>> ELSE <<>>)
         \o PickByOutcome(Tail(seq), Tail(outs), which)

SlideImages(slides) == [i \in 1..Len(slides) |-> slides[i].image]

StrictlySorted(seq) ==
  \A i \in 1..(Len(seq) - 1) : StrLess(seq[i], seq[i + 1])

\* One "could not open" error per image whose outcome is "open_error".
OpenErrors ==
  LET bad == PickByOutcome(image_files, outcomes, "open_error")
  IN  [i \in 1..Len(bad) |->
         Error("open_failed", PathJoin(locals.images_folder, bad[i]))]

\* A run that listed the folder, met no embedding failure, and has ended.
EndedWithoutEmbedError ==
  /\ pc = "done"
  /\ listed = "returned"
  /\ "embed_error" \notin Range(outcomes)

\* C2 as stated: such a run always saves one slide per openable image, in
\* sorted order, logs one error per unreadable image and ends with status 0.
C2_Original ==
  EndedWithoutEmbedError =>
    /\ opened = image_files
    /\ Errors = OpenErrors
    /\ exit_code = 0
    /\ Len(output_file) = 1
    /\ SlideImages(output_file[1].slides)
         = PickByOutcome(image_files, outcomes, "ok")
    /\ StrictlySorted(SlideImages(output_file[1].slides))

\* C2, amended: in a run where some images fail to open and all others open
\* and embed, every candidate is processed and one error is logged per
\* unreadable image; the document holds one slide per openable image in
\* sorted filename order; if the save succeeds that document is written and
\* the exit status is 0, and if the save fails that error is logged, nothing
\* is written and the exit status is 1.
C2_UnreadableImagesSkipped ==
  EndedWithoutEmbedError =>
    /\ opened = image_files
    /\ Len(outcomes) = Len(image_files)
    /\ SlideImages(presentation.slides)
         = PickByOutcome(image_files, outcomes, "ok")
    /\ StrictlySorted(SlideImages(presentation.slides))
    /\ \A i \in 1..Len(presentation.slides) :
         /\ Len(presentation.slides[i].pictures) = 1
         /\ Len(presentation.slides[i].textboxes) = 1
    /\ uncaught = ""
    /\ \/ /\ exit_code = 0
          /\ Errors = OpenErrors
          /\ Len(output_file) = 1
          /\ output_file[1].slides = presentation.slides
       \/ /\ exit_code = 1
          /\ Errors = OpenErrors \o
                        <<Error("save_failed", locals.full_output_path)>>
          /\ output_file = <<>>

C2_Witness ==
  /\ EndedWithoutEmbedError
  /\ exit_code = 0
  /\ outcomes = <<"ok", "open_error", "ok", "ok">>
  /\ Len(output_file) = 1
  /\ Len(output_file[1].slides) = 3

CountOutcome(which) == Len(PickByOutcome(outcomes, outcomes, which))

\* C3: after any run the document holds as many slides as images were both
\* opened and embedded, each with one picture and one text box; an image
\* whose picture could not be embedded has no slide.
C3_Claim ==
  (pc = "done" /\ listed = "returned") =>
    /\ Len(presentation.slides) = CountOutcome("ok")
    /\ \A i \in 1..Len(presentation.slides) :
         /\ Len(presentation.slides[i].pictures) = 1
         /\ Len(presentation.slides[i].textboxes) = 1
    /\ \A d \in Range(output_file) : Len(d.slides) = CountOutcome("ok")

\* The extensions validation accepted (the default when none is given).
ConfiguredExtensions ==
  IF HasKey(config, K_extensions)
    THEN {config.items[K_extensions].elems[i].s :
            i \in 1..Len(config.items[K_extensions].elems)}
    ELSE {DotPng}

\* C4: the candidate list is the sorted list of exactly the entries whose
\* lowercased name ends with the lowercased form of an allowed extension;
\* b.PNG, a.png, c.txt with [".png"] give [a.png, b.PNG].
C4_Claim ==
  listed = "returned" =>
    /\ StrictlySorted(image_files)
    /\ Range(image_files)
         = {f \in Range(all_files) :
              \E ext \in ConfiguredExtensions :
                 EndsWith(Lower(f), Lower(ext))}
    /\ (Range(all_files) = {N_b_PNG, N_a_png, N_c_txt}
          /\ ConfiguredExtensions = {DotPng})
         => image_files = <<N_a_png, N_b_PNG>>

Widescreen == <<Frac(133333, 10000), Frac(15, 2)>>
Standard == <<Frac(10, 1), Frac(15, 2)>>

SlideSizeIs(size) ==
  presentation.created =>
    /\ FracEq(presentation.slide_width, size[1])
    /\ FracEq(presentation.slide_height, size[2])

SlideSizeWarned ==
  \E i \in 1..Len(log) :
     log[i].level = "warning" /\ log[i].msg = "invalid_slide_size_option"

\* C5: with slide_size_option absent, or any value that is not "standard"
\* or "widescreen" in some letter case, the slide size is the widescreen
\* default, a warning is logged and the run goes on without error;
\* "standard" in any letter case gives (10.0, 7.5) and no warning.
C5_Claim ==
  (validated /\ pc # "create_powerpoint_slides") =>
    LET p == config.items[K_presentation]
        absent == ~ HasKey(p, K_slide_size_option)
        given == p.items[K_slide_size_option]
        recognized == given.kind = "str"
                        /\ Lower(given.s) \in {S_standard, S_widescreen}
    IN  /\ (absent \/ ~ recognized) =>
             /\ uncaught # "AttributeError"
             /\ SlideSizeWarned
             /\ SlideSizeIs(Widescreen)
        /\ (~ absent /\ given.kind = "str" /\ Lower(given.s) = S_standard) =>
             /\ ~ SlideSizeWarned
             /\ SlideSizeIs(Standard)

WellFormed(cfg) ==
  /\ cfg.kind = "map"
  /\ HasKey(cfg, K_paths) /\ cfg.items[K_paths].kind = "map"
  /\ HasKey(cfg, K_presentation) /\ cfg.items[K_presentation].kind = "map"

\* C6: once loading and validation are over, either the configuration was
\* validated, and then it is a mapping whose paths and presentation are
\* mappings, or the process has ended with status 1 on a logged error and
\* not on an exception.
C6_Claim ==
  pc \notin {"load_config", "validate_config"} =>
    /\ validated => WellFormed(config)
    /\ ~ validated =>
         /\ pc = "done"
         /\ exit_code = 1
         /\ uncaught = ""
         /\ log # <<>>
         /\ IsError(log[Len(log)])

\* ------------------------------------------------- the order of the rules
\* The rules of validate_config in the order C7 gives them, numbered from 1:
\* 1 'paths' present, 2 'presentation' present, 3-5 the three paths keys,
\* 6 images_folder is a directory, 7 output_filename ends in .pptx,
\* 8-15 the eight presentation keys, 16 extensions.
PathsHas(cfg, key) ==
  HasKey(cfg, K_paths) /\ HasKey(cfg.items[K_paths], key)

IsExistingDir(v) == v.kind = "str" /\ v.s \in DOMAIN files /\ files[v.s] = "dir"
IsPptxName(v) == v.kind = "str" /\ EndsWith(v.s, DotPptx)
IsNumerical(v) == Float(v).res = "ok"

ExtensionsAcceptable(cfg) ==
  HasKey(cfg, K_extensions) =>
    /\ cfg.items[K_extensions].kind = "list"
    /\ \A i \in 1..Len(cfg.items[K_extensions].elems) :
         /\ cfg.items[K_extensions].elems[i].kind = "str"
         /\ StartsWith(cfg.items[K_extensions].elems[i].s, <<".">>)

RuleHolds(cfg, r) ==
  CASE r = 1 -> HasKey(cfg, K_paths)
    [] r = 2 -> HasKey(cfg, K_presentation)
    [] r \in 3..5 -> PathsHas(cfg, required_paths_keys[r - 2])
    [] r = 6 -> /\ PathsHas(cfg, K_images_folder)
                /\ IsExistingDir(cfg.items[K_paths].items[K_images_folder])
    [] r = 7 -> /\ PathsHas(cfg, K_output_filename)
                /\ IsPptxName(cfg.items[K_paths].items[K_output_filename])
    [] r \in 8..15 ->
         /\ HasKey(cfg, K_presentation)
         /\ HasKey(cfg.items[K_presentation], required_presentation_keys[r - 7])
         /\ IsNumerical(cfg.items[K_presentation].items[
                          required_presentation_keys[r - 7]])
    [] OTHER -> ExtensionsAcceptable(cfg)

ViolatedRules(cfg) == {r \in 1..16 : ~ RuleHolds(cfg, r)}

FirstViolated(cfg) ==
  CHOOSE r \in ViolatedRules(cfg) : \A q \in ViolatedRules(cfg) : r <= q

KeyIndex(keys, key) ==
  IF \E i \in 1..Len(keys) : keys[i] = key
    THEN CHOOSE i \in 1..Len(keys) : keys[i] = key
    ELSE 0

\* The rule an error message of validate_config names.
RuleNamed(e) ==
  CASE e.msg = "missing_paths_section" -> 1
    [] e.msg = "missing_presentation_section" -> 2
    [] e.msg = "missing_paths_key" -> 2 + KeyIndex(required_paths_keys, e.arg)
    [] e.msg = "images_folder_not_dir" -> 6
    [] e.msg = "output_filename_not_pptx" -> 7
    [] e.msg \in {"missing_presentation_key", "not_numerical"} ->
         7 + KeyIndex(required_presentation_keys, e.arg)
    [] e.msg \in {"extensions_not_list", "invalid_extension"} -> 16
    [] OTHER -> 0

\* C7: the checks run in the stated order, and a configuration violating
\* one or several rules gets exactly one logged error, naming the first rule
\* it violates, and the process exits at once; a missing or unparsable
\* file gets the one error of its own rule.
C7_Claim ==
  /\ (pc = "done" /\ config.kind = "null") =>
       /\ exit_code = 1
       /\ Len(log) = 1
       /\ IsError(log[1])
       /\ log[1].msg \in {"config_not_found", "yaml_parse_failed"}
  /\ (pc \notin {"load_config", "validate_config"} /\ config.kind # "null"
        /\ ViolatedRules(config) # {}) =>
       /\ pc = "done"
       /\ exit_code = 1
       /\ ~ validated
       /\ Len(log) = 1
       /\ IsError(log[1])
       /\ RuleNamed(log[1]) = FirstViolated(config)

\* C7's statement in the runs no exception ends.
C7_WhenNothingIsRaised == uncaught = "" => C7_Claim

\* C8: a run that ends on a fatal error has logged an error naming the
\* cause as its last message and exits with a non-zero status, and no
\* document has been written.
C8_Claim ==
  (pc = "done" /\ exit_code # 0) =>
    /\ uncaught = ""
    /\ log # <<>>
    /\ IsError(log[Len(log)])
    /\ listed = "raised" => log[Len(log)].msg = "listdir_failed"
    /\ listed = "returned" => log[Len(log)].msg = "save_failed"
    /\ output_file = <<>>

\* C8's statement in the runs no exception ends.
C8_WhenNothingIsRaised == uncaught = "" => C8_Claim

\* A run that found no candidate image and has ended.
EndedWithoutCandidates ==
  /\ pc = "done"
  /\ listed = "returned"
  /\ image_files = <<>>

NoImagesWarned ==
  \E i \in 1..Len(log) :
     log[i].level = "warning" /\ log[i].msg = "no_image_files"

ConfiguredOutputPath ==
  config.items[K_paths].items[K_output_folder].s \o <<"/">>
    \o config.items[K_paths].items[K_output_filename].s

\* C9 as stated: with no candidate the run warns, adds no slide, opens no
\* image, logs no error, writes a document with zero slides to the
\* configured path and ends with status 0.
C9_Original ==
  EndedWithoutCandidates =>
    /\ NoImagesWarned
    /\ presentation.slides = <<>>
    /\ opened = <<>>
    /\ Errors = <<>>
    /\ exit_code = 0
    /\ Len(output_file) = 1
    /\ output_file[1].slides = <<>>
    /\ output_file[1].path = ConfiguredOutputPath

\* C9, amended: with no candidate the run warns, adds no slide and opens no
\* image; if the save succeeds, a document with zero slides is written to
\* the configured path, no error is logged and the exit status is 0; if the
\* save fails, that one error is logged, nothing is written and the exit
\* status is 1.
C9_EmptyFolderGivesEmptyDocument ==
  EndedWithoutCandidates =>
    /\ NoImagesWarned
    /\ presentation.slides = <<>>
    /\ opened = <<>>
    /\ uncaught = ""
    /\ \/ /\ exit_code = 0
          /\ Errors = <<>>
          /\ Len(output_file) = 1
          /\ output_file[1].slides = <<>>
          /\ output_file[1].path = ConfiguredOutputPath
       \/ /\ exit_code = 1
          /\ Errors = <<Error("save_failed", ConfiguredOutputPath)>>
          /\ output_file = <<>>

C9_Witness ==
  /\ EndedWithoutCandidates
  /\ all_files = <<N_c_txt, N_d_jpg>>
  /\ exit_code = 0
  /\ Len(output_file) = 1

\* The pictures of a sequence of slides, each with the image it shows.
PlacedPictures(slides) ==
  UNION {{[image |-> slides[i].image, pic |-> slides[i].pictures[j]] :
            j \in 1..Len(slides[i].pictures)} : i \in 1..Len(slides)}

AllPlacedPictures ==
  PlacedPictures(presentation.slides)
    \cup UNION {PlacedPictures(output_file[i].slides) : i \in 1..Len(output_file)}

ConfiguredNumber(key) == Float(config.items[K_presentation].items[key])

\* C10: every placed picture of an image of w x h pixels at scale p percent
\* is w/96 * p/100 inches wide and h/96 * p/100 inches high, so that
\* width * h = height * w, and its top-left corner is (image_left_inches,
\* image_top_inches); 960 x 480 at 50 percent is 5.0 x 2.5 inches.
C10_PlacementGeometry ==
  \A x \in AllPlacedPictures :
    LET w == ImageSize(x.image)[1]
        h == ImageSize(x.image)[2]
        p == ConfiguredNumber(K_image_scale_percent)
    IN  /\ FracEq(x.pic.width, Frac(w * p.n, 96 * 100 * p.d))
        /\ FracEq(x.pic.height, Frac(h * p.n, 96 * 100 * p.d))
        /\ FracEq(FracMul(x.pic.width, Frac(h, 1)),
                  FracMul(x.pic.height, Frac(w, 1)))
        /\ FracEq(x.pic.left, ConfiguredNumber(K_image_left_inches))
        /\ FracEq(x.pic.top, ConfiguredNumber(K_image_top_inches))
        /\ (w = 960 /\ h = 480 /\ FracEq(p, Frac(50, 1))) =>
             /\ FracEq(x.pic.width, Frac(5, 1))
             /\ FracEq(x.pic.height, Frac(5, 2))

C10_Witness ==
  /\ pc = "done"
  /\ exit_code = 0
  /\ \E x \in AllPlacedPictures :
       /\ x.image = N_a_png
       /\ FracEq(ConfiguredNumber(K_image_scale_percent), Frac(50, 1))
       /\ x.pic.width = Frac(5, 1)
       /\ x.pic.height = Frac(5, 2)
  /\ \E x \in AllPlacedPictures : x.image = N_b_PNG

====
